---------------------------- MODULE Spec2Model ----------------------------
(***************************************************************************)
(* Rail YAPF node, segment key and segment cache                           *)
(* (src/pathfinder/yapf/yapf_node_rail.hpp) and the in-memory              *)
(* decompressors of src/textfile.cpp.                                      *)
(***************************************************************************)
EXTENDS Integers, Sequences, FiniteSets, TLC

VARIABLES
    kst,      \* segment keys built from a pair of positions
    nodes,    \* the CYapfRailNodeT objects of one search session
    hist,     \* history of the session: what was passed to Set, first lookups
    heap,     \* the CYapfRailSegment objects of the session's segment cache
    slots,    \* the hash table of the segment cache: bucket -> first segment
    last,     \* the last call made on the session and what it returned
    aborted,  \* an assertion of the session has failed
    ast,      \* the best-first search engine
    uz        \* one run of Gunzip or Xunzip

vars == <<kst, nodes, hist, heap, slots, last, aborted, ast, uz>>

NULL == 0

-----------------------------------------------------------------------------
(* Fixed-width integers *)

\* A 32-bit word is kept as its two 16-bit halves; an int32 is an integer.
Half == 65536

Word32(hi, lo) == [hi |-> hi % Half, lo |-> lo % Half]

\* The uint32 of a natural number below 2^31.
NatToUint32(x) == Word32(x \div Half, x % Half)

\* Conversion uint32 -> int32 keeps the bit pattern.
Uint32ToInt32(w) ==
    IF w.hi >= Half \div 2 THEN (w.hi - Half) * Half + w.lo ELSE w.hi * Half + w.lo

\* Conversion int32 -> uint32 keeps the bit pattern.
Int32ToUint32(x) ==
    IF x < 0 THEN Word32((x \div Half) + Half, x % Half) ELSE NatToUint32(x)

\* Conversion int32 -> uint16 keeps the low half only.
Int32ToUint16(x) == Word32(0, x % Half)

ToUint16(x) == x % Half

RECURSIVE BitOr(_, _)
BitOr(a, b) ==
    IF a = 0 THEN b
    ELSE IF b = 0 THEN a
    ELSE (IF a % 2 = 1 \/ b % 2 = 1 THEN 1 ELSE 0) + 2 * BitOr(a \div 2, b \div 2)

RECURSIVE BitAnd(_, _)
BitAnd(a, b) ==
    IF a = 0 \/ b = 0 THEN 0
    ELSE (IF a % 2 = 1 /\ b % 2 = 1 THEN 1 ELSE 0) + 2 * BitAnd(a \div 2, b \div 2)

\* w << n and w >> n on a uint32, for n below 16.
ShiftLeft32(w, n) ==
    Word32(w.hi * (2 ^ n) + (w.lo * (2 ^ n)) \div Half, w.lo * (2 ^ n))

ShiftRight32(w, n) ==
    Word32(w.hi \div (2 ^ n), w.lo \div (2 ^ n) + (w.hi % (2 ^ n)) * (Half \div (2 ^ n)))

\* w | x and w & x for a small x: only the low half is touched.
Or32(w, x) == Word32(w.hi, BitOr(w.lo, x))

And32(w, x) == Word32(0, BitAnd(w.lo, x))

-----------------------------------------------------------------------------
(* Positions *)

\* Tile indices 0..MaxTile and, for the wide end of the map, HighTile.
MaxTile == 2
HighTile == 16777215

\* A trackdir fits the low four bits of a key; the tile lies above them.
TrackdirMask == 15
TileShift == 4

Tiles == (0 .. MaxTile) \cup {HighTile, 4096}
Trackdirs == 0 .. TrackdirMask
Positions == [tile : Tiles, td : Trackdirs]

\* A default-constructed PathPos: no tile, no trackdir.
UnsetPos == [tile |-> -1, td |-> -1]

-----------------------------------------------------------------------------
(* CYapfNodeKeyTrackDir / CYapfRailSegmentKey *)

\* The key of a node in track-direction mode hashes to (tile << 4) | td.
KeyTrackDirCalcHash(pos) ==
    Uint32ToInt32(Or32(ShiftLeft32(NatToUint32(pos.tile), TileShift), pos.td))

\* CYapfRailSegmentKey::Set(const CYapfNodeKeyTrackDir&)
SegmentKeySetTruncated(node_hash) == [m_value |-> Int32ToUint16(node_hash)]
SegmentKeySet(node_hash) == [m_value |-> Int32ToUint32(node_hash)]

\* CYapfRailSegmentKey::CalcHash
SegmentKeyCalcHash(key) == Uint32ToInt32(key.m_value)

\* CYapfRailSegmentKey::operator ==
SegmentKeyEqTileOnly(a, b) == ShiftRight32(a.m_value, TileShift) = ShiftRight32(b.m_value, TileShift)
SegmentKeyEq(a, b) == a.m_value = b.m_value

\* CYapfRailSegmentKey::Dump: the tile and the trackdir it writes.
DumpTile(key) == Uint32ToInt32(ShiftRight32(key.m_value, TileShift))
DumpTd(key) == Uint32ToInt32(And32(key.m_value, TrackdirMask))

\* The segment key of a position, as the cache's callers build it.
SegmentKeyOf(pos) == SegmentKeySet(KeyTrackDirCalcHash(pos))

KeyIdle == [pc |-> "idle"]

KeyInit == kst = KeyIdle

\* Build the segment keys of two positions and dump the first.
BuildKeys(p1, p2) ==
    /\ kst.pc = "idle"
    /\ kst' = [pc |-> "built", p1 |-> p1, p2 |-> p2,
               k1 |-> SegmentKeyOf(p1), k2 |-> SegmentKeyOf(p2)]
    /\ UNCHANGED <<nodes, hist, heap, slots, last, aborted, ast, uz>>

CompareKeys ==
    /\ kst.pc = "built"
    /\ kst' = [pc |-> "compared", p1 |-> kst.p1, p2 |-> kst.p2,
               k1 |-> kst.k1, k2 |-> kst.k2,
               eq |-> SegmentKeyEq(kst.k1, kst.k2),
               hash1 |-> SegmentKeyCalcHash(kst.k1),
               hash2 |-> SegmentKeyCalcHash(kst.k2),
               tile1 |-> DumpTile(kst.k1),
               td1 |-> DumpTd(kst.k1)]
    /\ UNCHANGED <<nodes, hist, heap, slots, last, aborted, ast, uz>>

-----------------------------------------------------------------------------
(* CYapfRailSegment and the segment cache *)

ESRB_NONE == {}

\* CYapfRailSegment::CYapfRailSegment(const CYapfRailSegmentKey&)
CYapfRailSegmentZeroCost(key) ==
    [m_key |-> key,
     m_last |-> UnsetPos,
     m_cost |-> 0,
     m_last_signal |-> UnsetPos,
     m_end_segment_reason |-> ESRB_NONE,
     m_hash_next |-> NULL]
CYapfRailSegment(key) ==
    [m_key |-> key,
     m_last |-> UnsetPos,
     m_cost |-> -1,
     m_last_signal |-> UnsetPos,
     m_end_segment_reason |-> ESRB_NONE,
     m_hash_next |-> NULL]

\* CYapfRailSegment::GetKey
GetKey(seg) == seg.m_key

\* CYapfRailSegment::GetHashNext
GetHashNext(seg) == seg.m_hash_next

\* CYapfRailSegment::SetHashNext
SetHashNextDropsLink(seg, next) == seg
SetHashNext(seg, next) == [seg EXCEPT !.m_hash_next = next]

\* Number of buckets of the cache's hash table, and the most segments it holds.
NumBuckets == 2
MaxSegments == 4

Buckets == 0 .. (NumBuckets - 1)

\* The bucket of a key: its CalcHash() folded onto the table.
BucketOf(key) == SegmentKeyCalcHash(key) % NumBuckets

\* Walk one collision chain for a key; NULL when the chain does not hold it.
RECURSIVE FindInChain(_, _, _)
FindInChain(h, id, key) ==
    IF id = NULL THEN NULL
    ELSE IF SegmentKeyEq(GetKey(h[id]), key) THEN id
    ELSE FindInChain(h, GetHashNext(h[id]), key)

\* Look a key up in the cache.
CacheFind(key) == FindInChain(heap, slots[BucketOf(key)], key)

\* The heap after a new segment for key was allocated and pushed on its chain.
HeapAfterInsert(key) ==
    Append(heap, SetHashNext(CYapfRailSegment(key), slots[BucketOf(key)]))

\* A segment is computed when its cost is still the sentinel.
NeedsComputeAlways(seg) == TRUE
NeedsCompute(seg) == seg.m_cost = -1

-----------------------------------------------------------------------------
(* CYapfRailNodeT *)

MaxNodes == 3
Nodes == 1 .. MaxNodes

\* The nodes a session uses when it also resolves their segments.
MaxSessionNodes == 2
SessionNodes == 1 .. MaxSessionNodes

\* Positions the session's nodes stand on.
MaxNodeTile == 1
NodePositions == [tile : 0 .. MaxNodeTile, td : {0, 1}] \ {[tile |-> MaxNodeTile, td |-> 1]}
TreePositions == [tile : {0}, td : {0, 1}]

SignalTypes == {"SIGTYPE_NORMAL", "SIGTYPE_PBS"}

\* The bits of flags_u.m_inherited_flags that flags_s names.
TargedSeen(flags) == flags % 2 = 1
ChoiceSeen(flags) == (flags \div 2) % 2 = 1
LastSignalWasRed(flags) == (flags \div 4) % 2 = 1

\* flags_u.flags_s.m_choice_seen |= is_choice
OrChoiceSeen(flags, is_choice) ==
    IF is_choice /\ ~ChoiceSeen(flags) THEN flags + 2 ELSE flags

\* flags_u.flags_s.m_choice_seen = is_choice
AssignChoiceSeen(flags, is_choice) ==
    IF is_choice = ChoiceSeen(flags) THEN flags
    ELSE IF is_choice THEN flags + 2 ELSE flags - 2

SetLastSignalWasRed(flags) == IF LastSignalWasRed(flags) THEN flags ELSE flags + 4

\* A segment pointer that points at no segment of the cache.
DanglingSegment == 99

\* What the memory of a node object may hold before its first Set.
GarbageNodes ==
    { [m_parent |-> NULL, m_pos |-> UnsetPos, m_segment |-> DanglingSegment,
       m_num_signals_passed |-> 65535, m_inherited_flags |-> 15,
       m_last_red_signal_type |-> "SIGTYPE_PBS",
       m_last_signal_type |-> "SIGTYPE_NORMAL"],
      [m_parent |-> NULL, m_pos |-> UnsetPos, m_segment |-> NULL,
       m_num_signals_passed |-> 0, m_inherited_flags |-> 0,
       m_last_red_signal_type |-> "SIGTYPE_NORMAL",
       m_last_signal_type |-> "SIGTYPE_NORMAL"] }

\* CYapfNodeT::Set: the base class records the parent and the position.
BaseNodeSet(this, parent, pos, is_choice) ==
    [this EXCEPT !.m_parent = parent, !.m_pos = pos]

\* Set with the choice flag assigned instead of or-ed.
RailNodeSetAssignsChoice(this, parent, pos, is_choice) ==
    LET b == [BaseNodeSet(this, parent, pos, is_choice) EXCEPT !.m_segment = NULL]
        c == IF parent = NULL
             THEN [b EXCEPT !.m_num_signals_passed = 0,
                            !.m_inherited_flags = 0,
                            !.m_last_red_signal_type = "SIGTYPE_NORMAL",
                            !.m_last_signal_type = "SIGTYPE_PBS"]
             ELSE [b EXCEPT !.m_num_signals_passed = nodes[parent].m_num_signals_passed,
                            !.m_inherited_flags = nodes[parent].m_inherited_flags,
                            !.m_last_red_signal_type = nodes[parent].m_last_red_signal_type,
                            !.m_last_signal_type = nodes[parent].m_last_signal_type]
    IN [c EXCEPT !.m_inherited_flags = AssignChoiceSeen(@, is_choice)]

\* Set with the root's last signal type left as it was.
RailNodeSetRootKeepsType(this, parent, pos, is_choice) ==
    LET b == [BaseNodeSet(this, parent, pos, is_choice) EXCEPT !.m_segment = NULL]
        c == IF parent = NULL
             THEN [b EXCEPT !.m_num_signals_passed = 0,
                            !.m_inherited_flags = 0,
                            !.m_last_red_signal_type = "SIGTYPE_NORMAL"]
             ELSE [b EXCEPT !.m_num_signals_passed = nodes[parent].m_num_signals_passed,
                            !.m_inherited_flags = nodes[parent].m_inherited_flags,
                            !.m_last_red_signal_type = nodes[parent].m_last_red_signal_type,
                            !.m_last_signal_type = nodes[parent].m_last_signal_type]
    IN [c EXCEPT !.m_inherited_flags = OrChoiceSeen(@, is_choice)]

\* Set with the segment pointer left as it was.
RailNodeSetKeepsSegment(this, parent, pos, is_choice) ==
    LET b == BaseNodeSet(this, parent, pos, is_choice)
        c == IF parent = NULL
             THEN [b EXCEPT !.m_num_signals_passed = 0,
                            !.m_inherited_flags = 0,
                            !.m_last_red_signal_type = "SIGTYPE_NORMAL",
                            !.m_last_signal_type = "SIGTYPE_PBS"]
             ELSE [b EXCEPT !.m_num_signals_passed = nodes[parent].m_num_signals_passed,
                            !.m_inherited_flags = nodes[parent].m_inherited_flags,
                            !.m_last_red_signal_type = nodes[parent].m_last_red_signal_type,
                            !.m_last_signal_type = nodes[parent].m_last_signal_type]
    IN [c EXCEPT !.m_inherited_flags = OrChoiceSeen(@, is_choice)]

\* Set with the child's last signal type reset instead of inherited.
RailNodeSetChildResetsType(this, parent, pos, is_choice) ==
    LET b == [BaseNodeSet(this, parent, pos, is_choice) EXCEPT !.m_segment = NULL]
        c == IF parent = NULL
             THEN [b EXCEPT !.m_num_signals_passed = 0,
                            !.m_inherited_flags = 0,
                            !.m_last_red_signal_type = "SIGTYPE_NORMAL",
                            !.m_last_signal_type = "SIGTYPE_PBS"]
             ELSE [b EXCEPT !.m_num_signals_passed = nodes[parent].m_num_signals_passed,
                            !.m_inherited_flags = nodes[parent].m_inherited_flags,
                            !.m_last_red_signal_type = nodes[parent].m_last_red_signal_type,
                            !.m_last_signal_type = "SIGTYPE_PBS"]
    IN [c EXCEPT !.m_inherited_flags = OrChoiceSeen(@, is_choice)]

\* CYapfRailNodeT::Set
RailNodeSet(this, parent, pos, is_choice) ==
    LET b == [BaseNodeSet(this, parent, pos, is_choice) EXCEPT !.m_segment = NULL]
        c == IF parent = NULL
             THEN [b EXCEPT !.m_num_signals_passed = 0,
                            !.m_inherited_flags = 0,
                            !.m_last_red_signal_type = "SIGTYPE_NORMAL",
                            !.m_last_signal_type = "SIGTYPE_PBS"]
             ELSE [b EXCEPT !.m_num_signals_passed = nodes[parent].m_num_signals_passed,
                            !.m_inherited_flags = nodes[parent].m_inherited_flags,
                            !.m_last_red_signal_type = nodes[parent].m_last_red_signal_type,
                            !.m_last_signal_type = nodes[parent].m_last_signal_type]
    IN [c EXCEPT !.m_inherited_flags = OrChoiceSeen(@, is_choice)]

\* What GetLastPos yields: the assertion fails on a null segment pointer; a
\* pointer to no segment of the cache reads whatever lies there.
AssertionFailed == [tile |-> -2, td |-> -2]
StaleRead == [tile |-> -3, td |-> -3]

\* CYapfRailNodeT::GetLastPos
GetLastPos(node) ==
    IF node.m_segment = NULL THEN AssertionFailed
    ELSE IF node.m_segment \in 1 .. Len(heap) THEN heap[node.m_segment].m_last
    ELSE StaleRead

-----------------------------------------------------------------------------
(* One search session: nodes are Set, their segments resolved and queried *)

KeyValues == { SegmentKeyOf(p).m_value : p \in NodePositions \cup TreePositions }

\* The most signals the walk of one node passes, and the cost range of a segment.
MaxSignals == 1
MaxCost == 1

\* What the walk of a segment may find: a walk of cost c ends c tiles on, at a
\* dead end.
SegmentWalks ==
    { [cost |-> c,
       last |-> [tile |-> c % (MaxNodeTile + 1), td |-> 0],
       reason |-> {"ESRB_DEAD_END"}] : c \in 0 .. MaxCost }

FreshHistory ==
    [is_choice |-> FALSE, fresh |-> FALSE, resolved |-> FALSE, stale |-> FALSE,
     passed |-> 0]

NoCall == [op |-> "none"]

\* The session's nodes come from an arena: nodes 1..top have been Set, node top
\* is the one being built, and the nodes below it are in the search tree.
SessionInit ==
    /\ nodes \in { [n \in Nodes |-> g] : g \in GarbageNodes }
    /\ hist = [top |-> 0,
               node |-> [n \in Nodes |-> FreshHistory],
               first |-> [v \in KeyValues |-> NULL]]
    /\ heap = <<>>
    /\ slots = [b \in Buckets |-> NULL]
    /\ last = NoCall
    /\ aborted = FALSE

SessionIdle ==
    /\ nodes = [n \in Nodes |-> CHOOSE g \in GarbageNodes : g.m_segment = NULL]
    /\ hist = [top |-> 0,
               node |-> [n \in Nodes |-> FreshHistory],
               first |-> [v \in KeyValues |-> NULL]]
    /\ heap = <<>>
    /\ slots = [b \in Buckets |-> NULL]
    /\ last = NoCall
    /\ aborted = FALSE

IsSet(n) == n \in 1 .. hist.top

\* n.Set(parent, pos, is_choice): n is the node being built, set again, or the
\* next node of the arena; its parent is a node of the tree.
Set(n, parent, pos, is_choice) ==
    /\ ~aborted
    /\ n \in {hist.top, hist.top + 1} \cap Nodes
    /\ parent \in {NULL} \cup (1 .. (n - 1))
    /\ nodes' = [nodes EXCEPT ![n] = RailNodeSet(nodes[n], parent, pos, is_choice)]
    /\ hist' = [hist EXCEPT !.top = n,
                   !.node[n] =
                   [is_choice |-> is_choice, fresh |-> TRUE, resolved |-> FALSE,
                    stale |-> nodes[n].m_segment # NULL, passed |-> 0]]
    /\ last' = NoCall
    /\ UNCHANGED <<kst, heap, slots, aborted, ast, uz>>

\* The caller resolves the segment of the node being built: the cache finds the
\* segment of the node's key or inserts a new one, and the node points at it.
\* A miss constructs the segment, kept as the constructor left it in last.seg,
\* and pushes it on the chain of its bucket.
AttachSegment(n) ==
    LET key == SegmentKeyOf(nodes[n].m_pos)
        found == CacheFind(key)
        id == IF found # NULL THEN found ELSE Len(heap) + 1
    IN /\ ~aborted
       /\ n = hist.top /\ n # 0
       /\ nodes[n].m_segment = NULL
       /\ found = NULL => Len(heap) < MaxSegments
       /\ heap' = IF found # NULL THEN heap ELSE HeapAfterInsert(key)
       /\ slots' = IF found # NULL THEN slots
                   ELSE [slots EXCEPT ![BucketOf(key)] = id]
       /\ nodes' = [nodes EXCEPT ![n].m_segment = id]
       /\ hist' = [hist EXCEPT !.node[n].resolved = TRUE,
                               !.first[key.m_value] = IF @ = NULL THEN id ELSE @]
       /\ last' = IF found # NULL THEN NoCall
                  ELSE [op |-> "NewSegment", n |-> n, id |-> id,
                        seg |-> CYapfRailSegment(key)]
       /\ UNCHANGED <<kst, aborted, ast, uz>>

\* The caller walks the track of a segment whose cost is not known yet and
\* writes the result into the segment.
ComputeSegment(n, walk) ==
    LET id == nodes[n].m_segment
    IN /\ ~aborted
       /\ n = hist.top /\ n # 0
       /\ id \in 1 .. Len(heap)
       /\ NeedsCompute(heap[id])
       /\ heap' = [heap EXCEPT ![id].m_cost = walk.cost,
                               ![id].m_last = walk.last,
                               ![id].m_end_segment_reason = walk.reason]
       /\ last' = NoCall
       /\ UNCHANGED <<kst, nodes, hist, slots, aborted, ast, uz>>

\* The walk of the node being built passes a signal: one that is not red counts
\* and sets the last signal type; a red one sets last_signal_was_red and the
\* last red signal type.
PassSignal(n, red, type) ==
    /\ ~aborted
    /\ n = hist.top /\ n # 0
    /\ hist.node[n].passed < MaxSignals
    /\ nodes' = [nodes EXCEPT ![n] =
                   IF red
                   THEN [@ EXCEPT !.m_inherited_flags = SetLastSignalWasRed(@),
                                  !.m_last_red_signal_type = type]
                   ELSE [@ EXCEPT !.m_num_signals_passed = ToUint16(@ + 1),
                                  !.m_last_signal_type = type]]
    /\ hist' = [hist EXCEPT !.node[n].fresh = FALSE, !.node[n].passed = @ + 1]
    /\ last' = NoCall
    /\ UNCHANGED <<kst, heap, slots, aborted, ast, uz>>

\* n.GetLastPos()
CallGetLastPos(n) ==
    /\ ~aborted
    /\ IsSet(n)
    /\ last' = [op |-> "GetLastPos", n |-> n, ret |-> GetLastPos(nodes[n])]
    /\ aborted' = (GetLastPos(nodes[n]) = AssertionFailed)
    /\ UNCHANGED <<kst, nodes, hist, heap, slots, ast, uz>>

AstIdle == [pc |-> "idle"]
UzIdle == [pc |-> "idle"]

\* Nodes are Set and resolved against the segment cache.
SessionNext ==
    \/ \E n \in SessionNodes, parent \in SessionNodes \cup {NULL}, pos \in NodePositions :
          Set(n, parent, pos, FALSE)
    \/ \E n \in SessionNodes : AttachSegment(n)
    \/ \E n \in SessionNodes, walk \in SegmentWalks : ComputeSegment(n, walk)
    \/ \E n \in SessionNodes : CallGetLastPos(n)

InitSession == SessionInit /\ kst = KeyIdle /\ ast = AstIdle /\ uz = UzIdle

SpecSession == InitSession /\ [][SessionNext]_vars

\* Nodes are Set and pass signals.
TreeNext ==
    \/ \E n \in Nodes, parent \in Nodes \cup {NULL}, pos \in TreePositions,
          is_choice \in BOOLEAN : Set(n, parent, pos, is_choice)
    \/ \E n \in Nodes, red \in BOOLEAN, type \in SignalTypes : PassSignal(n, red, type)

InitTree == SessionInit /\ kst = KeyIdle /\ ast = AstIdle /\ uz = UzIdle

SpecTree == InitTree /\ [][TreeNext]_vars

KeyNext ==
    \/ \E p1 \in Positions, p2 \in Positions : BuildKeys(p1, p2)
    \/ CompareKeys

InitKey == KeyInit /\ SessionIdle /\ ast = AstIdle /\ uz = UzIdle

SpecKey == InitKey /\ [][KeyNext]_vars

-----------------------------------------------------------------------------
(* Properties of the node tree *)

Parent(n) == nodes[nodes[n].m_parent]

\* The node itself and the nodes on its parent chain.
RECURSIVE AncestorsOrSelf(_)
AncestorsOrSelf(n) ==
    IF n = NULL THEN {} ELSE {n} \cup AncestorsOrSelf(nodes[n].m_parent)

\* A node of the tree that has a parent and is as Set left it.
IsFreshChild(n) == IsSet(n) /\ nodes[n].m_parent # NULL /\ hist.node[n].fresh

IsFreshRoot(n) == IsSet(n) /\ nodes[n].m_parent = NULL /\ hist.node[n].fresh

\* C1: a node that Set created under a parent has choice_seen and
\* last_signal_was_red set whenever the parent has, and has passed no fewer
\* signals than the parent.
C1_ChildNotBelowParent ==
    \A n \in Nodes : IsFreshChild(n) =>
        /\ ChoiceSeen(Parent(n).m_inherited_flags) => ChoiceSeen(nodes[n].m_inherited_flags)
        /\ LastSignalWasRed(Parent(n).m_inherited_flags)
              => LastSignalWasRed(nodes[n].m_inherited_flags)
        /\ nodes[n].m_num_signals_passed >= Parent(n).m_num_signals_passed

\* A child set without is_choice under a parent that has seen a choice, passed
\* a signal and met a red one.
C1_Witness ==
    \E n \in Nodes :
        /\ IsFreshChild(n)
        /\ ~hist.node[n].is_choice
        /\ ChoiceSeen(Parent(n).m_inherited_flags)
        /\ LastSignalWasRed(Parent(n).m_inherited_flags)
        /\ Parent(n).m_num_signals_passed > 0

\* C2: a node that Set made a root has passed no signals, has seen no target
\* and no red signal, and has last red signal type normal and last signal type
\* PBS, whatever the node object held before.
C2_RootDefaults ==
    \A n \in Nodes : IsFreshRoot(n) =>
        /\ nodes[n].m_num_signals_passed = 0
        /\ ~TargedSeen(nodes[n].m_inherited_flags)
        /\ ~LastSignalWasRed(nodes[n].m_inherited_flags)
        /\ nodes[n].m_last_red_signal_type = "SIGTYPE_NORMAL"
        /\ nodes[n].m_last_signal_type = "SIGTYPE_PBS"

\* A root set on a node object that held other values, at the second position.
C2_Witness ==
    \E n \in Nodes :
        /\ IsFreshRoot(n)
        /\ hist.node[n].stale
        /\ hist.node[n].is_choice
        /\ nodes[n].m_pos.td = 1

\* C10: a node that Set created under a parent has the parent's signals_passed,
\* target_seen, last_signal_was_red, last red signal type and last signal type,
\* and its choice_seen is the parent's or-ed with is_choice; so a node has
\* choice_seen exactly when is_choice was passed for it or for an ancestor.
C10_ChildInheritsParent ==
    /\ \A n \in Nodes : IsFreshChild(n) =>
          /\ nodes[n].m_num_signals_passed = Parent(n).m_num_signals_passed
          /\ TargedSeen(nodes[n].m_inherited_flags) = TargedSeen(Parent(n).m_inherited_flags)
          /\ LastSignalWasRed(nodes[n].m_inherited_flags)
                = LastSignalWasRed(Parent(n).m_inherited_flags)
          /\ nodes[n].m_last_red_signal_type = Parent(n).m_last_red_signal_type
          /\ nodes[n].m_last_signal_type = Parent(n).m_last_signal_type
          /\ ChoiceSeen(nodes[n].m_inherited_flags)
                = (ChoiceSeen(Parent(n).m_inherited_flags) \/ hist.node[n].is_choice)
    /\ \A n \in Nodes : IsSet(n) =>
          (ChoiceSeen(nodes[n].m_inherited_flags)
              = (\E a \in AncestorsOrSelf(n) : hist.node[a].is_choice))

\* A grandchild set without is_choice whose grandparent was set with it, under a
\* parent whose signal state is not the root's.
C10_Witness ==
    \E n \in Nodes :
        /\ IsFreshChild(n)
        /\ ~hist.node[n].is_choice
        /\ nodes[n].m_parent # NULL /\ Parent(n).m_parent # NULL
        /\ ~hist.node[nodes[n].m_parent].is_choice
        /\ hist.node[Parent(n).m_parent].is_choice
        /\ Parent(n).m_last_signal_type = "SIGTYPE_NORMAL"
        /\ Parent(n).m_last_red_signal_type = "SIGTYPE_PBS"
        /\ Parent(n).m_num_signals_passed = 1

-----------------------------------------------------------------------------
(* Properties of the segment key *)

\* C4: the segment key of a position hashes to (tile << 4) | trackdir, from
\* which the tile is value >> 4 and the trackdir value & 0x0F.
C4_HashIsPackedPosition ==
    kst.pc = "compared" =>
        /\ kst.hash1 = kst.p1.tile * 16 + kst.p1.td
        /\ kst.tile1 = kst.p1.tile
        /\ kst.td1 = kst.p1.td

\* The key of the highest tile with the highest trackdir.
C4_Witness ==
    /\ kst.pc = "compared"
    /\ kst.p1.tile = HighTile
    /\ kst.p1.td = TrackdirMask
    /\ kst.hash1 > Half

\* C5: two segment keys compare equal exactly when their positions have the
\* same tile and trackdir, and no two different positions share a hash.
C5_KeyIsUnique ==
    kst.pc = "compared" =>
        /\ kst.eq = (kst.p1.tile = kst.p2.tile /\ kst.p1.td = kst.p2.td)
        /\ kst.hash1 = kst.hash2 => kst.p1 = kst.p2

\* Two positions on one tile with different trackdirs, and unequal keys.
C5_Witness ==
    /\ kst.pc = "compared"
    /\ kst.p1.tile = kst.p2.tile
    /\ kst.p1.tile = 4096
    /\ kst.p1.td # kst.p2.td
    /\ ~kst.eq

-----------------------------------------------------------------------------
(* Properties of the session's segments *)

\* The segment the cache first returned for the node's key.
FirstSegmentOf(n) == hist.first[SegmentKeyOf(nodes[n].m_pos).m_value]

\* C3: Set clears the segment pointer; GetLastPos fails its assertion on a node
\* whose segment was not resolved since its last Set, and otherwise returns the
\* last position recorded in the node's segment.
C3_GetLastPosNeedsSegment ==
    /\ \A n \in Nodes : IsSet(n) /\ ~hist.node[n].resolved => nodes[n].m_segment = NULL
    /\ \A n \in Nodes : IsSet(n) =>
          GetLastPos(nodes[n]) =
             IF hist.node[n].resolved THEN heap[FirstSegmentOf(n)].m_last
             ELSE AssertionFailed
    /\ last.op = "GetLastPos" =>
          /\ last.ret = GetLastPos(nodes[last.n])
          /\ aborted = ~hist.node[last.n].resolved
    /\ aborted => last.op = "GetLastPos"

\* GetLastPos failed on a node that held a segment pointer before it was Set
\* again, while another node yields the position its segment recorded.
C3_Witness ==
    /\ aborted
    /\ last.op = "GetLastPos"
    /\ hist.node[last.n].stale
    /\ \E m \in Nodes :
          /\ IsSet(m) /\ m # last.n
          /\ hist.node[m].resolved
          /\ GetLastPos(nodes[m]) \in NodePositions
          /\ GetLastPos(nodes[m]) # nodes[m].m_pos

\* C6: the cache holds one segment per key: no two segments have the same key,
\* every lookup of a key returned the segment the first lookup returned, and
\* there are as many segments as keys looked up.
C6_OneSegmentPerKey ==
    /\ \A i, j \in 1 .. Len(heap) : heap[i].m_key = heap[j].m_key => i = j
    /\ \A n \in Nodes : IsSet(n) /\ hist.node[n].resolved =>
          /\ nodes[n].m_segment = FirstSegmentOf(n)
          /\ heap[nodes[n].m_segment].m_key = SegmentKeyOf(nodes[n].m_pos)
    /\ Len(heap) = Cardinality({ v \in KeyValues : hist.first[v] # NULL })

\* Two nodes on one position share a segment that sits behind another one in
\* its collision chain.
C6_Witness ==
    \E n, m \in Nodes :
        /\ n # m /\ IsSet(n) /\ IsSet(m)
        /\ hist.node[n].resolved /\ hist.node[m].resolved
        /\ nodes[n].m_pos = nodes[m].m_pos
        /\ nodes[n].m_segment = nodes[m].m_segment
        /\ \E i \in 1 .. Len(heap) : heap[i].m_hash_next = nodes[n].m_segment

\* C7: a segment whose cost is no longer -1 keeps its cost in every step.
C7_CostIsFinal ==
    [][\A i \in 1 .. Len(heap) : heap[i].m_cost # -1 =>
          (i <= Len(heap') /\ heap'[i].m_cost = heap[i].m_cost)]_vars

\* A computed segment that a second node resolved to afterwards, with another
\* segment computed to a different cost.
C7_Witness ==
    \E n, m \in Nodes, i \in 1 .. Len(heap) :
        /\ n < m /\ IsSet(m)
        /\ nodes[n].m_segment = nodes[m].m_segment
        /\ nodes[n].m_segment \in 1 .. Len(heap)
        /\ heap[nodes[n].m_segment].m_cost = MaxCost
        /\ heap[i].m_cost = 0

\* C11: a segment created for a key the cache did not hold is constructed with
\* exactly that key, cost -1, no end-segment reason, unset last and last-signal
\* positions and a null hash-next link; the cache holds it unchanged but for
\* the link to the rest of its bucket's chain, and a segment of the cache whose
\* cost is still -1 is still in that state.
C11_NewSegmentIsUncomputed ==
    /\ last.op = "NewSegment" =>
          /\ last.seg.m_key = SegmentKeyOf(nodes[last.n].m_pos)
          /\ last.seg.m_cost = -1
          /\ last.seg.m_end_segment_reason = {}
          /\ last.seg.m_last = [tile |-> -1, td |-> -1]
          /\ last.seg.m_last_signal = [tile |-> -1, td |-> -1]
          /\ last.seg.m_hash_next = 0
          /\ last.id = Len(heap)
          /\ nodes[last.n].m_segment = last.id
          /\ FirstSegmentOf(last.n) = last.id
          /\ heap[last.id] = [last.seg EXCEPT !.m_hash_next = heap[last.id].m_hash_next]
          /\ \A i \in 1 .. (Len(heap) - 1) : heap[i].m_key # last.seg.m_key
    /\ \A i \in 1 .. Len(heap) : heap[i].m_cost = -1 =>
          /\ heap[i].m_end_segment_reason = {}
          /\ heap[i].m_last = [tile |-> -1, td |-> -1]
          /\ heap[i].m_last_signal = [tile |-> -1, td |-> -1]

\* A segment was created in a cache that already holds a computed segment of
\* another key in the same bucket: the new segment heads that bucket's chain.
C11_Witness ==
    /\ last.op = "NewSegment"
    /\ Len(heap) >= 2
    /\ slots[BucketOf(last.seg.m_key)] = last.id
    /\ heap[last.id].m_hash_next \in 1 .. (Len(heap) - 1)
    /\ heap[heap[last.id].m_hash_next].m_cost # -1
    /\ heap[heap[last.id].m_hash_next].m_key # last.seg.m_key

-----------------------------------------------------------------------------
(* Gunzip and Xunzip *)

BLOCKSIZE == 8192

\* The most blocks the output grows to, and the largest input.
MaxBlocks == 2
MaxInput == 2

GunzipResults == {"Z_OK", "Z_BUF_ERROR", "Z_STREAM_END", "Z_DATA_ERROR"}
XunzipResults == {"LZMA_OK", "LZMA_BUF_ERROR", "LZMA_STREAM_END", "LZMA_DATA_ERROR"}

DecoderResults(codec) == IF codec = "gz" THEN GunzipResults ELSE XunzipResults

\* while (res == Z_OK || (res == Z_BUF_ERROR && z.avail_out == 0))
GunzipContinues(res, avail_out) ==
    res = "Z_OK" \/ (res = "Z_BUF_ERROR" /\ avail_out = 0)

\* while (res == LZMA_OK || (res == LZMA_BUF_ERROR && z.avail_out == 0))
XunzipContinues(res, avail_out) ==
    res = "LZMA_OK" \/ (res = "LZMA_BUF_ERROR" /\ avail_out = 0)

Continues(codec, res, avail_out) ==
    IF codec = "gz" THEN GunzipContinues(res, avail_out)
    ELSE XunzipContinues(res, avail_out)

\* What the caller gets back with the size left as computed on a failure.
GunzipReturnKeepsSize(res, buf, alloc_size, avail_out) ==
    IF res = "Z_STREAM_END"
    THEN [bufp |-> buf, sizep |-> alloc_size - avail_out, free_buf |-> FALSE]
    ELSE [bufp |-> NULL, sizep |-> alloc_size - avail_out, free_buf |-> TRUE]

\* if (res == Z_STREAM_END) { *bufp = buf; *sizep = alloc_size - z.avail_out; }
\* else { *bufp = NULL; *sizep = 0; free(buf); }
GunzipReturn(res, buf, alloc_size, avail_out) ==
    IF res = "Z_STREAM_END"
    THEN [bufp |-> buf, sizep |-> alloc_size - avail_out, free_buf |-> FALSE]
    ELSE [bufp |-> NULL, sizep |-> 0, free_buf |-> TRUE]

\* if (res == LZMA_STREAM_END) { *bufp = buf; *sizep = alloc_size - z.avail_out; }
\* else { *bufp = NULL; *sizep = 0; free(buf); }
XunzipReturn(res, buf, alloc_size, avail_out) ==
    IF res = "LZMA_STREAM_END"
    THEN [bufp |-> buf, sizep |-> alloc_size - avail_out, free_buf |-> FALSE]
    ELSE [bufp |-> NULL, sizep |-> 0, free_buf |-> TRUE]

\* The buffers of a run: the caller's input and the output that grows by blocks.
InputBuffer == 1
OutputBuffer == 2

\* The entry of Gunzip / Xunzip up to the loop: the stream is set up on the
\* input and the decoder initialised; res is what the initialisation returns.
UnzipStart(codec, size, res) ==
    /\ uz.pc = "idle"
    /\ uz' = [pc |-> "loop", codec |-> codec,
              bufp |-> InputBuffer, sizep |-> size,
              buf |-> NULL, alloc_size |-> 0, avail_out |-> 0, res |-> res,
              input_freed |-> 0, output_freed |-> 0,
              produced |-> 0, calls |-> 0]
    /\ UNCHANGED <<kst, nodes, hist, heap, slots, last, aborted, ast>>

\* One turn of the loop: the output grows by a block and the decoder runs on
\* it, writes some bytes and returns res.
UnzipGrow(res, written) ==
    /\ uz.pc = "loop"
    /\ res \in DecoderResults(uz.codec)
    /\ Continues(uz.codec, uz.res, uz.avail_out)
    /\ written \in 0 .. (uz.avail_out + BLOCKSIZE)
    /\ uz.alloc_size + BLOCKSIZE >= MaxBlocks * BLOCKSIZE
          => ~Continues(uz.codec, res, uz.avail_out + BLOCKSIZE - written)
    /\ uz' = [uz EXCEPT !.alloc_size = @ + BLOCKSIZE,
                        !.avail_out = @ + BLOCKSIZE - written,
                        !.buf = OutputBuffer,
                        !.res = res,
                        !.produced = @ + written,
                        !.calls = @ + 1]
    /\ UNCHANGED <<kst, nodes, hist, heap, slots, last, aborted, ast>>

\* After the loop: the input is freed, the decoder ended, and the result handed
\* back through bufp and sizep.
UnzipReturn ==
    LET ret == IF uz.codec = "gz"
               THEN GunzipReturn(uz.res, uz.buf, uz.alloc_size, uz.avail_out)
               ELSE XunzipReturn(uz.res, uz.buf, uz.alloc_size, uz.avail_out)
    IN /\ uz.pc = "loop"
       /\ ~Continues(uz.codec, uz.res, uz.avail_out)
       /\ uz' = [uz EXCEPT !.pc = "done",
                           !.input_freed = @ + 1,
                           !.bufp = ret.bufp,
                           !.sizep = ret.sizep,
                           !.output_freed =
                               IF ret.free_buf /\ uz.buf # NULL THEN @ + 1 ELSE @]
       /\ UNCHANGED <<kst, nodes, hist, heap, slots, last, aborted, ast>>

\* How many bytes one decoder call may write, of the space it has.
WrittenChoices == {0, 1, BLOCKSIZE - 1, BLOCKSIZE, BLOCKSIZE + 1}

UnzipNext ==
    \/ \E codec \in {"gz", "xz"}, size \in 0 .. MaxInput :
          \E res \in DecoderResults(codec) : UnzipStart(codec, size, res)
    \/ \E res \in GunzipResults \cup XunzipResults, written \in WrittenChoices :
          UnzipGrow(res, written)
    \/ UnzipReturn

InitUnzip == uz = UzIdle /\ SessionIdle /\ kst = KeyIdle /\ ast = AstIdle

SpecUnzip == InitUnzip /\ [][UnzipNext]_vars

IsStreamEnd(res) == res \in {"Z_STREAM_END", "LZMA_STREAM_END"}

\* C9: when Gunzip or Xunzip returns, the input buffer has been freed once;
\* after a run whose last decoder result is not the stream end the caller holds
\* no buffer and size 0, and after one that ended with the stream end it holds
\* the output buffer and the number of bytes the decoder wrote, which is the
\* allocated size less the output space left.
C9_UnzipResult ==
    uz.pc = "done" =>
        /\ uz.input_freed = 1
        /\ ~IsStreamEnd(uz.res) =>
              /\ uz.bufp = NULL /\ uz.sizep = 0
              /\ uz.output_freed = (IF uz.calls > 0 THEN 1 ELSE 0)
        /\ IsStreamEnd(uz.res) =>
              /\ uz.bufp = (IF uz.calls > 0 THEN OutputBuffer ELSE NULL)
              /\ uz.sizep = uz.produced
              /\ uz.sizep = uz.alloc_size - uz.avail_out
              /\ uz.output_freed = 0

\* Xunzip failed on a full output buffer grown twice, after writing bytes.
C9_Witness ==
    /\ uz.pc = "done"
    /\ uz.codec = "xz"
    /\ uz.res = "LZMA_BUF_ERROR"
    /\ uz.calls = MaxBlocks
    /\ uz.produced > BLOCKSIZE
    /\ uz.bufp = NULL

-----------------------------------------------------------------------------
(* The best-first search engine over a finite track graph *)

MaxVertices == 3
Vertices == 1 .. MaxVertices

\* No path of the search is longer than this.
MaxPathCost == 4

\* The track graphs: any set of directed edges between different vertices.
Graphs == SUBSET { e \in Vertices \X Vertices : e[1] # e[2] }

Successors(graph, v) == { w \in Vertices : <<v, w>> \in graph }

OpenPositions(open) == { open[i].pos : i \in 1 .. Len(open) }

\* The open node popped next: the lowest cost, the earliest inserted among equals.
BestIndex(open) ==
    CHOOSE i \in 1 .. Len(open) :
        \A j \in 1 .. Len(open) :
            open[i].cost < open[j].cost \/ (open[i].cost = open[j].cost /\ i <= j)

RemoveAt(seq, i) == SubSeq(seq, 1, i - 1) \o SubSeq(seq, i + 1, Len(seq))

\* A successor position becomes an open node unless it was seen before.
IsUnseenIgnoresClosed(open, closed, v) == v \notin OpenPositions(open)
IsUnseen(open, closed, v) == v \notin OpenPositions(open) /\ v \notin closed

\* The open list after the unseen successors of a node were inserted, in the
\* order of their positions.
RECURSIVE InsertSuccessors(_, _, _, _)
InsertSuccessors(open, closed, succ, cost) ==
    IF succ = {} THEN open
    ELSE LET v == CHOOSE x \in succ : \A y \in succ : x <= y
         IN InsertSuccessors(
                IF IsUnseen(open, closed, v)
                THEN Append(open, [pos |-> v, cost |-> cost]) ELSE open,
                closed, succ \ {v}, cost)

\* A search starts on a graph with its start position open.
AstarStart(graph, goal) ==
    /\ ast.pc = "idle"
    /\ ast' = [pc |-> "run", graph |-> graph, goal |-> goal,
               open |-> <<[pos |-> 1, cost |-> 0]>>, closed |-> {}]
    /\ UNCHANGED <<kst, nodes, hist, heap, slots, last, aborted, uz>>

\* One turn of the main loop: no open node is left and the search fails, or the
\* best open node is popped and is the goal, or it is closed and expanded.
AstarStep ==
    /\ ast.pc = "run"
    /\ IF ast.open = <<>>
       THEN ast' = [ast EXCEPT !.pc = "no_path"]
       ELSE LET i == BestIndex(ast.open)
                n == ast.open[i]
                rest == RemoveAt(ast.open, i)
                closed == ast.closed \cup {n.pos}
            IN IF n.pos \in ast.goal
               THEN ast' = [ast EXCEPT !.pc = "found", !.open = rest]
               ELSE /\ n.cost < MaxPathCost
                    /\ ast' = [ast EXCEPT
                                  !.closed = closed,
                                  !.open = InsertSuccessors(rest, closed,
                                              Successors(ast.graph, n.pos), n.cost + 1)]
    /\ UNCHANGED <<kst, nodes, hist, heap, slots, last, aborted, uz>>

AstarNext ==
    \/ \E graph \in Graphs, goal \in {{}, {MaxVertices}} :
          AstarStart(graph, goal)
    \/ AstarStep

InitAstar == ast = AstIdle /\ SessionIdle /\ kst = KeyIdle /\ uz = UzIdle

\* The main loop runs to completion: a turn that can be taken is taken.
SpecAstar == InitAstar /\ [][AstarNext]_vars /\ WF_vars(AstarStep)

\* C8: a search whose goal no position satisfies ends with no path found.
C8_SearchTerminates ==
    (ast.pc = "run" /\ ast.goal = {}) ~> (ast.pc = "no_path")

\* A search without a goal ended with no path after closing every vertex of a
\* graph that has a cycle through the start.
C8_Witness ==
    /\ ast.pc = "no_path"
    /\ ast.goal = {}
    /\ ast.closed = Vertices
    /\ <<1, 2>> \in ast.graph /\ <<2, 1>> \in ast.graph

=============================================================================
